---- MODULE Spec2Model ----
(***************************************************************************)
(* State-machine model of diagnose_metadata.py: run_diagnostic() spawns    *)
(* the crawler, monitors its standard output line by line for two minutes, *)
(* terminates it, prints the diagnosis and the advice, and then runs       *)
(* test_network_connectivity().  The child process, the operating system   *)
(* (pipes, signals, clock) and the ping command are the environment.       *)
(* A second specification, QuickSpec, models quick_test.py: the search for *)
(* the executable, the 30 s run and the verdict printed about its output.  *)
(***************************************************************************)
EXTENDS Integers, Sequences, FiniteSets, TLC

(***************************************************************************)
(* Bounds of the model and constants of the program.                       *)
(***************************************************************************)

\* the child writes at most this many lines, to both streams together
MaxLines == 2

\* granularity of the modelled wall clock, in seconds
TimeQuantum == 60

\* how far past the deadline the modelled clock runs, in seconds
MaxOverrun == 60

\* while time.time() - start_time < 120
Deadline == 120

\* process.wait(timeout=5)
Grace == 5

(***************************************************************************)
(* Text: Python's `in` substring test, on a string and on its lower().     *)
(***************************************************************************)

UpperAlphabet == "ABCDEFGHIJKLMNOPQRSTUVWXYZ"

LowerAlphabet == "abcdefghijklmnopqrstuvwxyz"

CharAt(s, i) == SubSeq(s, i, i)

LowerChar(c) ==
    IF \E i \in 1..Len(UpperAlphabet) : CharAt(UpperAlphabet, i) = c
    THEN CharAt(LowerAlphabet,
                CHOOSE i \in 1..Len(UpperAlphabet) : CharAt(UpperAlphabet, i) = c)
    ELSE c

\* Python: pat in s
In(pat, s) ==
    \E i \in 1..(Len(s) - Len(pat) + 1) : SubSeq(s, i, i + Len(pat) - 1) = pat

\* Python: pat in s.lower(), the characters of s lower-cased one by one
InLower(pat, s) ==
    \E i \in 1..(Len(s) - Len(pat) + 1) :
        \A j \in 1..Len(pat) : LowerChar(CharAt(s, i + j - 1)) = CharAt(pat, j)

(***************************************************************************)
(* The lines the modelled child can write (without the line terminator).   *)
(***************************************************************************)

SampleLines ==
    { "DHT Bootstrap completed successfully",
      "ERROR: peers found: 0 reply received",
      "DHT Bootstrap completed, 5 peers found",
      "Queued metadata request, alert pending",
      "processing 3 alerts",
      "" }

ErrSampleLines == { "ERROR: metadata request failed" }

Signals == {"dht_bootstrap", "peers_found", "metadata_requests", "alerts_seen"}

AllFalse == [s \in Signals |-> FALSE]

(***************************************************************************)
(* Lines 67-80: the if/elif chain.  The result is the name of the one flag *)
(* the line sets, or "none".                                               *)
(***************************************************************************)

BootstrapRule(txt) == In("DHT Bootstrap completed", txt)

PeersRule(txt) ==
    /\ InLower("peers", txt)
    /\ \E x \in {"found", "reply", "discovered"} : In(x, txt)

MetadataRule(txt) ==
    \/ InLower("metadata request", txt)
    \/ InLower("queued metadata", txt)

AlertRule(txt) ==
    \/ InLower("alert", txt)
    \/ (In("processing", txt) /\ In("alerts", txt))

IndicatorOf(txt) ==
    IF BootstrapRule(txt) THEN "dht_bootstrap"
    ELSE IF PeersRule(txt) THEN "peers_found"
    ELSE IF MetadataRule(txt) THEN "metadata_requests"
    ELSE IF AlertRule(txt) THEN "alerts_seen"
    ELSE "none"

\* line 83
IsIssue(txt) == InLower("failed", txt) \/ InLower("error", txt)

\* what readline() can return for the lines of the model
ReadableLines == {l \o "\n" : l \in SampleLines \cup ErrSampleLines}

\* lines 67-80 applied to each of them
IndicatorTable == [l \in ReadableLines |-> IndicatorOf(l)]

(***************************************************************************)
(* State.                                                                  *)
(***************************************************************************)

VARIABLES
    pc,           \* position of run_diagnostic
    now,          \* time.time(), in seconds
    start_time,   \* line 53
    child,        \* "none", "running" or "exited" (the operating system's view)
    signalled,    \* signal sent to the child and not yet acted on
    sent,         \* the signals os.kill delivered, each with the time it was sent
    exited_at,    \* the time at which the child exited, -1 while it has not
    returncode,   \* process.returncode: "None" until poll()/wait() collects it
    out_open,     \* the child still holds the write end of its stdout pipe
    out_written,  \* every line the child wrote to stdout, in order
    out_read,     \* how many of them readline() has consumed
    err_written,  \* every line the child wrote to stderr (they stay in the pipe)
    err_blocked,  \* the child is blocked in a write to the full stderr pipe
    line,         \* line 57: what readline() returned ("" at end of file)
    flags,        \* dht_bootstrap, peers_found, metadata_requests, alerts_seen
    seen,         \* the lines that went through lines 64-84
    classified,   \* the same lines in the order they went through, with repeats
    loop_end,     \* how the while loop ended: "deadline", "exited", "error" or "none"
    issues,       \* the lines printed as "Issue detected"
    read_error,   \* "Error reading output" was printed
    results,      \* the four values printed under DIAGNOSTIC RESULTS, or <<>>
    advice,       \* the RECOMMENDED FIXES blocks printed, in order
    probes,       \* the lines printed by test_network_connectivity
    idx,          \* position inside the advice tests / the routers loop
    ping_run,     \* what the latest subprocess.run of ping did, or "none"
    diag_failed   \* "Diagnostic failed" was printed

\* quick_test.py
VARIABLES
    qpc,          \* position of quick_test.py, "off" while it is not run
    exists,       \* the candidate paths for which os.path.exists is True
    path,         \* position of the for loop of line 28 in possible_paths
    executable,   \* line 19, "None" until a candidate is selected
    printed,      \* what quick_test.py printed, in order
    exit_status,  \* exit status of quick_test.py, "none" while it runs
    spawned       \* cmd[0] of the child started by line 51, "None" if none was

diagVars == << pc, now, start_time, child, signalled, sent, exited_at, returncode, out_open,
               out_written, out_read, err_written, err_blocked, line, flags, seen,
               classified, loop_end, issues, read_error, results, advice, probes, idx,
               ping_run, diag_failed >>

quickVars == << qpc, exists, path, executable, printed, exit_status, spawned >>

vars == << diagVars, quickVars >>

procVars == << child, signalled, sent, exited_at, out_open, out_written, err_written,
              err_blocked >>

monVars == << line, flags, seen, classified, loop_end, issues, read_error >>

reportVars == << results, advice, probes, idx, ping_run, diag_failed >>

MaxTime == Deadline + MaxOverrun

\* the lines waiting in the stdout pipe
Pipe == SubSeq(out_written, out_read + 1, Len(out_written))

\* readline() sees end of file: nothing buffered and no writer left
AtEof == Pipe = << >> /\ ~out_open

\* lines 108, 115, 122, 128: the flag each block tests, in program order
AdviceOrder == << "dht_bootstrap", "peers_found", "metadata_requests", "alerts_seen" >>

\* lines 143-147
routers == << "router.utorrent.com", "router.bittorrent.com", "dht.transmissionbt.com" >>

\* what one ping run can do: exit 0, exit non-zero, run past timeout=5, fail to start
PingRuns == {"exit_zero", "exit_nonzero", "timeout_expired", "launch_error"}

\* diagnose_metadata.py before its first step
DiagInit ==
    /\ pc = "start"
    /\ now = 0
    /\ start_time = 0
    /\ child = "none"
    /\ signalled = "none"
    /\ sent = << >>
    /\ exited_at = -1
    /\ returncode = "None"
    /\ out_open = FALSE
    /\ out_written = << >>
    /\ out_read = 0
    /\ err_written = << >>
    /\ err_blocked = FALSE
    /\ line = ""
    /\ flags = AllFalse
    /\ seen = {}
    /\ classified = << >>
    /\ loop_end = "none"
    /\ issues = {}
    /\ read_error = FALSE
    /\ results = << >>
    /\ advice = << >>
    /\ probes = << >>
    /\ idx = 1
    /\ ping_run = "none"
    /\ diag_failed = FALSE

\* quick_test.py is not run
QuickOff ==
    /\ qpc = "off"
    /\ exists = {}
    /\ path = 1
    /\ executable = "None"
    /\ printed = << >>
    /\ exit_status = "none"
    /\ spawned = "None"

Init == DiagInit /\ QuickOff

(***************************************************************************)
(* run_diagnostic, lines 11-139.                                           *)
(***************************************************************************)

\* line 19: os.chdir, outside the try block: its exception leaves the function
Chdir ==
    /\ pc = "start"
    /\ pc' \in {"popen", "raised"}
    /\ UNCHANGED quickVars
    /\ UNCHANGED << now, start_time, procVars, returncode, out_read, monVars, reportVars >>

\* lines 38-53: the child is started with both streams piped
PopenOk ==
    /\ pc = "popen"
    /\ child' = "running"
    /\ out_open' = TRUE
    /\ flags' = AllFalse
    /\ start_time' = now
    /\ pc' = "while"
    /\ UNCHANGED quickVars
    /\ UNCHANGED << exited_at, now, signalled, sent, returncode, out_written, out_read,
                    err_written, err_blocked, line, seen, classified, loop_end, issues,
                    read_error, reportVars >>

\* a plausible slip: the network test placed after the try statement
PopenFailThenProbes ==
    /\ pc = "popen"
    /\ diag_failed' = TRUE
    /\ pc' = "probe"
    /\ UNCHANGED quickVars
    /\ UNCHANGED << now, start_time, procVars, returncode, out_read, monVars, results,
                    advice, probes, idx, ping_run >>

\* line 38 raises (no such file, not executable): control goes to line 138
PopenFail ==
    /\ pc = "popen"
    /\ pc' = "except"
    /\ UNCHANGED quickVars
    /\ UNCHANGED << now, start_time, procVars, returncode, out_read, monVars, reportVars >>

\* line 55
WhileTest ==
    /\ pc = "while"
    /\ IF now - start_time < Deadline
       THEN pc' = "readline" /\ loop_end' = loop_end
       ELSE pc' = "cleanup" /\ loop_end' = "deadline"
    /\ UNCHANGED quickVars
    /\ UNCHANGED << now, start_time, procVars, returncode, out_read, line, flags, seen,
                    classified, issues, read_error, reportVars >>

\* line 57: readline() returns a buffered line, or "" at end of file;
\* with nothing buffered and the write end open it does not return
ReadLine ==
    /\ pc = "readline"
    /\ \/ /\ Pipe # << >>
          /\ line' = Head(Pipe) \o "\n"
          /\ out_read' = out_read + 1
          /\ pc' = "classify"
       \/ /\ AtEof
          /\ line' = ""
          /\ out_read' = out_read
          /\ pc' = "eof"
    /\ UNCHANGED quickVars
    /\ UNCHANGED << now, start_time, procVars, returncode, flags, seen, classified,
                    loop_end, issues, read_error, reportVars >>

\* line 57 raises (undecodable bytes, I/O error); lines 86-88 print and break
ReadError ==
    /\ pc = "readline"
    /\ Pipe # << >> \/ AtEof
    /\ out_read' = IF Pipe # << >> THEN out_read + 1 ELSE out_read
    /\ read_error' = TRUE
    /\ loop_end' = "error"
    /\ pc' = "cleanup"
    /\ UNCHANGED quickVars
    /\ UNCHANGED << now, start_time, procVars, returncode, line, flags, seen, classified,
                    issues, reportVars >>

\* the clock moves on while readline() waits for the child
ReadBlocked ==
    /\ pc = "readline"
    /\ Pipe = << >> /\ out_open
    /\ now + TimeQuantum <= MaxTime
    /\ now' = now + TimeQuantum
    /\ UNCHANGED quickVars
    /\ UNCHANGED << pc, start_time, procVars, returncode, out_read, monVars, reportVars >>

\* a plausible slip: `if not line: break` without the test of line 59
EofPollBreaks ==
    /\ pc = "eof"
    /\ returncode' = IF child = "exited" THEN "set" ELSE returncode
    /\ pc' = "cleanup"
    /\ loop_end' = "exited"
    /\ UNCHANGED quickVars
    /\ UNCHANGED << now, start_time, procVars, out_read, line, flags, seen, classified,
                    issues, read_error, reportVars >>

\* lines 58-62: poll() collects the exit status of a child that has exited
EofPoll ==
    /\ pc = "eof"
    /\ IF child = "exited"
       THEN returncode' = "set" /\ pc' = "cleanup" /\ loop_end' = "exited"
       ELSE returncode' = returncode /\ pc' = "sleep" /\ loop_end' = loop_end
    /\ UNCHANGED quickVars
    /\ UNCHANGED << now, start_time, procVars, out_read, line, flags, seen, classified,
                    issues, read_error, reportVars >>

\* line 61: time.sleep(0.1); the clock may cross into the next quantum
Sleep ==
    /\ pc = "sleep"
    /\ \/ now' = now
       \/ now + TimeQuantum <= MaxTime /\ now' = now + TimeQuantum
    /\ pc' = "while"
    /\ UNCHANGED quickVars
    /\ UNCHANGED << start_time, procVars, returncode, out_read, monVars, reportVars >>

\* a plausible slip: each flag recomputed from the current line alone
SetIndicatorFromLineOnly(f, l) == [s \in Signals |-> IndicatorTable[l] = s]

\* a plausible slip: the chain is skipped once some indicator was seen
SetIndicatorWhileNoneSet(f, l) ==
    IF IndicatorTable[l] = "none" \/ (\E s \in Signals : f[s])
    THEN f ELSE [f EXCEPT ![IndicatorTable[l]] = TRUE]

\* a plausible slip: the indicator of the line is flipped instead of set
SetIndicatorToggle(f, l) ==
    IF IndicatorTable[l] = "none" THEN f ELSE [f EXCEPT ![IndicatorTable[l]] = ~f[IndicatorTable[l]]]

\* lines 67-80: the flags once the line's indicator, if any, is recorded
SetIndicator(f, l) ==
    IF IndicatorTable[l] = "none" THEN f ELSE [f EXCEPT ![IndicatorTable[l]] = TRUE]

\* a plausible slip: the issue test chained to the indicators with elif
NoteIssueElif(s, l) == IF IndicatorOf(l) = "none" /\ IsIssue(l) THEN s \cup {l} ELSE s

\* lines 83-84
NoteIssue(s, l) == IF IsIssue(l) THEN s \cup {l} ELSE s

\* lines 64-84; the print of line 64 takes time, and the clock may cross into
\* the next quantum
Classify ==
    /\ pc = "classify"
    /\ flags' = SetIndicator(flags, line)
    /\ issues' = NoteIssue(issues, line)
    /\ seen' = seen \cup {line}
    /\ classified' = Append(classified, line)
    /\ \/ now' = now
       \/ now + TimeQuantum <= MaxTime /\ now' = now + TimeQuantum
    /\ pc' = "while"
    /\ UNCHANGED quickVars
    /\ UNCHANGED << start_time, procVars, returncode, out_read, line, loop_end,
                    read_error, reportVars >>

\* line 91
CleanupPoll ==
    /\ pc = "cleanup"
    /\ IF child = "exited"
       THEN returncode' = "set" /\ pc' = "results"
       ELSE returncode' = returncode /\ pc' = "terminate"
    /\ UNCHANGED quickVars
    /\ UNCHANGED << now, start_time, procVars, out_read, monVars, reportVars >>

\* os.kill without the poll() that Popen.send_signal does first
SendSignalNoPoll(sig, next) ==
    /\ returncode' = returncode
    /\ \/ /\ signalled' = sig
          /\ sent' = Append(sent, << sig, now >>)
          /\ pc' = next
       \/ /\ signalled' = signalled
          /\ sent' = sent
          /\ pc' = "except"

\* Popen.send_signal: poll() first; a collected child is not signalled;
\* os.kill either delivers the signal or raises (PermissionError)
SendSignal(sig, next) ==
    \/ /\ child = "exited"
       /\ returncode' = "set"
       /\ signalled' = signalled
       /\ sent' = sent
       /\ pc' = next
    \/ /\ child = "running"
       /\ returncode' = returncode
       /\ \/ /\ signalled' = sig
             /\ sent' = Append(sent, << sig, now >>)
             /\ pc' = next
          \/ /\ signalled' = signalled
             /\ sent' = sent
             /\ pc' = "except"

\* line 92
Terminate ==
    /\ pc = "terminate"
    /\ SendSignal("TERM", "wait")
    /\ UNCHANGED quickVars
    /\ UNCHANGED << exited_at, now, start_time, child, out_open, out_written, err_written,
                    err_blocked, out_read, monVars, reportVars >>

\* line 94: wait(timeout=5) returns once the child has exited
WaitReturns ==
    /\ pc = "wait"
    /\ child = "exited"
    /\ returncode' = "set"
    /\ pc' = "results"
    /\ UNCHANGED quickVars
    /\ UNCHANGED << now, start_time, procVars, out_read, monVars, reportVars >>

\* lines 94-95: the child is still running after the grace period
WaitExpires ==
    /\ pc = "wait"
    /\ child = "running"
    /\ now' = now + Grace
    /\ pc' = "kill"
    /\ UNCHANGED quickVars
    /\ UNCHANGED << start_time, procVars, returncode, out_read, monVars, reportVars >>

\* line 96
Kill ==
    /\ pc = "kill"
    /\ SendSignal("KILL", "results")
    /\ UNCHANGED quickVars
    /\ UNCHANGED << exited_at, now, start_time, child, out_open, out_written, err_written,
                    err_blocked, out_read, monVars, reportVars >>

\* lines 99-104
PrintResults ==
    /\ pc = "results"
    /\ results' = [s \in Signals |-> flags[s]]
    /\ idx' = 1
    /\ pc' = "advice"
    /\ UNCHANGED quickVars
    /\ UNCHANGED << now, start_time, procVars, returncode, out_read, monVars, advice,
                    probes, ping_run, diag_failed >>

\* a plausible slip: the advice also keyed by the issue lines seen
MissingOrIssues(f, k) == ~f[AdviceOrder[k]] \/ issues # {}

\* lines 108, 115, 122, 128: `if not <flag>`
Missing(f, k) == ~f[AdviceOrder[k]]

\* lines 108-132: one block per step
Advise ==
    /\ pc = "advice"
    /\ advice' = IF Missing(flags, idx) THEN Append(advice, AdviceOrder[idx]) ELSE advice
    /\ IF idx < Len(AdviceOrder)
       THEN idx' = idx + 1 /\ pc' = "advice"
       ELSE idx' = 1 /\ pc' = "probe"
    /\ UNCHANGED quickVars
    /\ UNCHANGED << now, start_time, procVars, returncode, out_read, monVars, results,
                    probes, ping_run, diag_failed >>

\* lines 157-162 with the handler of line 161 printing "Unreachable"
ProbeResultErrorUnreachable(run) ==
    CASE run = "exit_zero" -> "Reachable"
      [] OTHER -> "Unreachable"

\* lines 157-162
ProbeResult(run) ==
    CASE run = "exit_zero" -> "Reachable"
      [] run = "exit_nonzero" -> "Unreachable"
      [] OTHER -> "Test failed"

\* a plausible slip: the loop over the routers ends at the first probe that
\* is not answered
ProbeStopsAtFailure ==
    /\ pc = "probe"
    /\ \E run \in PingRuns :
          /\ ping_run' = run
          /\ probes' = Append(probes, << routers[idx], ProbeResult(run) >>)
          /\ IF idx < Len(routers) /\ run = "exit_zero"
             THEN idx' = idx + 1 /\ pc' = "probe"
             ELSE idx' = idx /\ pc' = "done"
    /\ UNCHANGED quickVars
    /\ UNCHANGED << now, start_time, procVars, returncode, out_read, monVars, results,
                    advice, diag_failed >>

\* lines 136, 149-162: one router per step
Probe ==
    /\ pc = "probe"
    /\ \E run \in PingRuns :
          /\ ping_run' = run
          /\ probes' = Append(probes, << routers[idx], ProbeResult(run) >>)
    /\ IF idx < Len(routers)
       THEN idx' = idx + 1 /\ pc' = "probe"
       ELSE idx' = idx /\ pc' = "done"
    /\ UNCHANGED quickVars
    /\ UNCHANGED << now, start_time, procVars, returncode, out_read, monVars, results,
                    advice, diag_failed >>

\* lines 138-139
Except ==
    /\ pc = "except"
    /\ diag_failed' = TRUE
    /\ pc' = "done"
    /\ UNCHANGED quickVars
    /\ UNCHANGED << now, start_time, procVars, returncode, out_read, monVars, results,
                    advice, probes, idx, ping_run >>

(***************************************************************************)
(* The child process and the operating system.  Nothing moves once         *)
(* run_diagnostic has returned ("done") or raised ("raised"): those states *)
(* are the moment of return.  What the child writes after the monitoring   *)
(* loop has ended is left out: nothing reads the pipes any more.           *)
(***************************************************************************)

Returned == pc \in {"done", "raised"}

InLoop == pc \in {"while", "readline", "classify", "eof", "sleep"}

ChildRuns == child = "running" /\ ~err_blocked /\ ~Returned

ChildWriteOut ==
    /\ ChildRuns
    /\ InLoop
    /\ out_open
    /\ Len(out_written) + Len(err_written) < MaxLines
    /\ \E l \in SampleLines : out_written' = Append(out_written, l)
    /\ UNCHANGED quickVars
    /\ UNCHANGED << exited_at, pc, now, start_time, child, signalled, sent, returncode,
                    out_open,
                    out_read, err_written, err_blocked, monVars, reportVars >>

\* a write to stderr goes into the pipe buffer; once the pipe holds unread
\* lines the buffer may be full, and then the write blocks
ChildWriteErr ==
    /\ ChildRuns
    /\ InLoop
    /\ \/ /\ Len(out_written) + Len(err_written) < MaxLines
          /\ \E l \in ErrSampleLines : err_written' = Append(err_written, l)
          /\ err_blocked' = FALSE
       \/ /\ err_written # << >>
          /\ err_written' = err_written
          /\ err_blocked' = TRUE
    /\ UNCHANGED quickVars
    /\ UNCHANGED << exited_at, pc, now, start_time, child, signalled, sent, returncode,
                    out_open,
                    out_written, out_read, monVars, reportVars >>

\* the child closes its stdout and keeps running
ChildCloseStdout ==
    /\ ChildRuns
    /\ InLoop
    /\ out_open
    /\ out_open' = FALSE
    /\ UNCHANGED quickVars
    /\ UNCHANGED << exited_at, pc, now, start_time, child, signalled, sent, returncode,
                    out_written,
                    out_read, err_written, err_blocked, monVars, reportVars >>

\* the child exits by itself
ChildExit ==
    /\ ChildRuns
    /\ child' = "exited"
    /\ exited_at' = now
    /\ out_open' = FALSE
    /\ UNCHANGED quickVars
    /\ UNCHANGED << pc, now, start_time, signalled, sent, returncode, out_written,
                    out_read, err_written, err_blocked, monVars, reportVars >>

\* the child dies of the signal sent to it (a child may ignore TERM for ever)
ChildSignalled ==
    /\ child = "running"
    /\ ~Returned
    /\ signalled # "none"
    /\ child' = "exited"
    /\ exited_at' = now
    /\ out_open' = FALSE
    /\ err_blocked' = FALSE
    /\ signalled' = "none"
    /\ UNCHANGED quickVars
    /\ UNCHANGED << pc, now, start_time, sent, returncode, out_written, out_read,
                    err_written, monVars, reportVars >>

Next ==
    \/ Chdir
    \/ PopenOk
    \/ PopenFail
    \/ WhileTest
    \/ ReadLine
    \/ ReadError
    \/ ReadBlocked
    \/ EofPoll
    \/ Sleep
    \/ Classify
    \/ CleanupPoll
    \/ Terminate
    \/ WaitReturns
    \/ WaitExpires
    \/ Kill
    \/ PrintResults
    \/ Advise
    \/ Probe
    \/ Except
    \/ ChildWriteOut
    \/ ChildWriteErr
    \/ ChildCloseStdout
    \/ ChildExit
    \/ ChildSignalled

Spec == Init /\ [][Next]_vars

(***************************************************************************)
(* quick_test.py, lines 1-79.  The pictographs at the start of the printed *)
(* messages are left out of the strings.                                   *)
(***************************************************************************)

\* line 12
test_hash == "00009643dee7016aa207644c782918db9fe39f86"

\* lines 20-26
possible_paths ==
    << "./builds/macos/arm/Debug/dht_crawler",
       "./builds/macos/x86/Debug/dht_crawler",
       "./builds/macos/arm/Release/dht_crawler",
       "./builds/macos/x86/Release/dht_crawler",
       "./dht_crawler" >>

\* the candidates as a set
Candidates == {possible_paths[i] : i \in DOMAIN possible_paths}

\* lines 16 and 77
Separator == "============================================================"

\* lines 14-16
Header ==
    << "Testing metadata extraction for hash: " \o test_hash,
       "This will run for 30 seconds to see if metadata is received...",
       Separator >>

\* lines 34-35
BuildFirst ==
    << "No executable found. Please build first:", "   make debug-macos-arm" >>

\* what the child of line 51 can leave in result.stdout
QuickOutputs ==
    { "METADATA DISCOVERED for 00009643",
      "METADATA TIMEOUT after METADATA DISCOVERED was expected",
      "METADATA TIMEOUT",
      "MySQL connection failed",
      "MySQL connection failed\nQueued metadata request",
      "Queued metadata request",
      "" }

\* what subprocess.run of line 51 can do: return with an output, run past
\* timeout=30, or fail to start the executable
QuickRuns == QuickOutputs \cup {"timeout_expired", "launch_error"}

\* lines 61-70 for a run that returned, lines 72-75 for one that raised
QuickVerdict(run) ==
    CASE run = "timeout_expired" -> << "Test completed (30 second timeout)" >>
      [] run = "launch_error" -> << "Error: launch_error" >>
      [] OTHER ->
           << "OUTPUT:", run >> \o
           ( IF In("METADATA DISCOVERED", run)
             THEN << "SUCCESS: Metadata extraction is working!" >>
             ELSE IF In("METADATA TIMEOUT", run)
             THEN << "TIMEOUT: No metadata received (may need to try different hashes)" >>
             ELSE IF In("MySQL connection failed", run)
             THEN << "INFO: MySQL connection failed, but that's okay for testing" >> \o
                  ( IF In("Queued metadata request", run)
                    THEN << "The metadata request system is working" >>
                    ELSE << >> )
             ELSE << "UNKNOWN: Check output above" >> )

\* quick_test.py before its first step, in a directory tree where any of the
\* candidates may exist
QuickInit ==
    /\ DiagInit
    /\ qpc = "chdir"
    /\ exists \in SUBSET Candidates
    /\ path = 1
    /\ executable = "None"
    /\ printed = << >>
    /\ exit_status = "none"
    /\ spawned = "None"

\* lines 9-19: os.chdir raises (uncaught, exit status 1) or the header is printed
QChdir ==
    /\ qpc = "chdir"
    /\ \/ qpc' = "raised" /\ exit_status' = 1 /\ printed' = printed
       \/ qpc' = "for" /\ exit_status' = exit_status /\ printed' = Header
    /\ UNCHANGED << exists, path, executable, spawned >>
    /\ UNCHANGED diagVars

\* lines 28-30 without the break of line 31
QForNoBreak ==
    /\ qpc = "for"
    /\ IF path > Len(possible_paths)
       THEN qpc' = "ifnot" /\ UNCHANGED << path, executable >>
       ELSE /\ executable' = IF possible_paths[path] \in exists
                             THEN possible_paths[path] ELSE executable
            /\ path' = path + 1
            /\ qpc' = qpc
    /\ UNCHANGED << exists, printed, exit_status, spawned >>
    /\ UNCHANGED diagVars

\* lines 28-31: one candidate per step
QFor ==
    /\ qpc = "for"
    /\ IF path > Len(possible_paths)
       THEN qpc' = "ifnot" /\ UNCHANGED << path, executable >>
       ELSE IF possible_paths[path] \in exists
            THEN executable' = possible_paths[path] /\ qpc' = "ifnot" /\ path' = path
            ELSE executable' = executable /\ qpc' = qpc /\ path' = path + 1
    /\ UNCHANGED << exists, printed, exit_status, spawned >>
    /\ UNCHANGED diagVars

\* lines 33-38
QIfNot ==
    /\ qpc = "ifnot"
    /\ IF executable = "None"
       THEN /\ printed' = printed \o BuildFirst
            /\ exit_status' = 1
            /\ qpc' = "exited"
       ELSE /\ printed' = Append(printed, "Using executable: " \o executable)
            /\ exit_status' = exit_status
            /\ qpc' = "run"
    /\ UNCHANGED << exists, path, executable, spawned >>
    /\ UNCHANGED diagVars

\* lines 41-75
QRun ==
    /\ qpc = "run"
    /\ \E run \in QuickRuns :
          /\ spawned' = IF run = "launch_error" THEN spawned ELSE executable
          /\ printed' = printed \o QuickVerdict(run)
    /\ qpc' = "tail"
    /\ UNCHANGED << exists, path, executable, exit_status >>
    /\ UNCHANGED diagVars

\* lines 77-79 and the end of the script
QTail ==
    /\ qpc = "tail"
    /\ printed' = printed \o
          << Separator,
             "If you see 'Queued metadata request' messages, your fix is working!",
             "For better testing, try with known active torrents or run longer tests" >>
    /\ exit_status' = 0
    /\ qpc' = "exited"
    /\ UNCHANGED << exists, path, executable, spawned >>
    /\ UNCHANGED diagVars

QuickNext ==
    \/ QChdir
    \/ QFor
    \/ QIfNot
    \/ QRun
    \/ QTail

QuickSpec == QuickInit /\ [][QuickNext]_vars

(***************************************************************************)
(* Properties.                                                             *)
(***************************************************************************)

\* the child was started by line 38
Spawned == child # "none"

\* terminate() or kill() raised: the only way to line 138 with a child
SignalFailed == Spawned /\ (pc = "except" \/ diag_failed)

\* the report after the monitoring: results, advice and a probe per router
ReportComplete == results # << >> /\ pc = "done" /\ Len(probes) = Len(routers)

\* the OR over the lines classified so far of what each line sets
OrOverSeen == [s \in Signals |-> \E l \in seen : IndicatorTable[l] = s]

\* C1: when run_diagnostic returns after having spawned the child, the
\* child is no longer alive, whichever way the monitoring loop ended.
C1_NoChildOutlivesMonitor == (pc = "done" /\ Spawned) => child = "exited"

\* C2: a read attempt never keeps the monitor past the deadline: whenever
\* the monitor is inside readline() less than Deadline seconds have elapsed.
C2_ReadNeverBlocksPastDeadline == pc = "readline" => now - start_time < Deadline

\* C3: every signal is false at spawn and monotonic: no step of the session
\* turns a true signal false, after every step the signals equal the OR
\* over the lines classified so far, and that is the value the results print.
C3_SignalsMonotonic ==
    [][ /\ \A s \in Signals : flags[s] => flags'[s]
        /\ flags' = OrOverSeen'
        /\ results' # << >> => results' = OrOverSeen' ]_vars

C3_Witness ==
    /\ read_error
    /\ results # << >>
    /\ results["dht_bootstrap"]
    /\ \E l \in seen : IndicatorTable[l] = "dht_bootstrap"
    /\ \E l \in seen : IndicatorTable[l] # "dht_bootstrap"
    /\ pc = "done"

\* the rule of each signal, taken by itself
RuleHolds(s, l) ==
    CASE s = "dht_bootstrap" -> BootstrapRule(l)
      [] s = "peers_found" -> PeersRule(l)
      [] s = "metadata_requests" -> MetadataRule(l)
      [] s = "alerts_seen" -> AlertRule(l)

\* the signals whose rule each readable line satisfies
RulesTable == [l \in ReadableLines |-> {s \in Signals : RuleHolds(s, l)}]

\* C4: the four rules are independent and non-exclusive: every signal whose
\* rule a classified line satisfies has been set.
C4_EveryMatchingRuleSets ==
    \A l \in seen : \A s \in RulesTable[l] : flags[s]

\* the readable lines that contain "failed" or "error" in any case
IssueLines == {l \in ReadableLines : \E w \in {"failed", "error"} : InLower(w, l)}

\* C5: a classified line is flagged as an issue iff it contains "failed" or
\* "error" in any case, whatever signal it set, and it has set its signal
\* all the same; the two lines of the scenarios behave as stated.
C5_AnomalyOrthogonal ==
    /\ \A l \in seen :
          /\ l \in issues <=> l \in IssueLines
          /\ \A s \in Signals : IndicatorTable[l] = s => flags[s]
    /\ "ERROR: peers found: 0 reply received\n" \in seen =>
          /\ flags["peers_found"]
          /\ "ERROR: peers found: 0 reply received\n" \in issues
    /\ "DHT Bootstrap completed successfully\n" \in seen =>
          /\ flags["dht_bootstrap"]
          /\ "DHT Bootstrap completed successfully\n" \notin issues

C5_Witness ==
    /\ "ERROR: peers found: 0 reply received\n" \in seen
    /\ "DHT Bootstrap completed successfully\n" \in seen

\* C6: the advice printed is a function of the printed signal values alone:
\* the blocks of exactly the false signals, in the order bootstrap, peers,
\* metadata, alerts.
C6_AdvicePureFunction ==
    results # << >> =>
      LET tested == IF pc = "advice" THEN SubSeq(AdviceOrder, 1, idx - 1) ELSE AdviceOrder
          absent(s) == ~results[s]
      IN  advice = SelectSeq(tested, absent)

C6_Witness ==
    /\ pc = "done"
    /\ issues # {}
    /\ results # << >>
    /\ results["peers_found"]
    /\ advice = << "dht_bootstrap", "metadata_requests", "alerts_seen" >>

\* C7: after a read error in the loop the session still ends with the
\* signals of the lines classified before it, a child that is gone, and the
\* complete report.
C7_ReadErrorKeepsSession ==
    (pc = "done" /\ read_error) => ReportComplete /\ results = OrOverSeen

\* C8: when terminate() or kill() fails the session still ends with the
\* complete report.
C8_TerminationFailureKeepsReport == (pc = "done" /\ SignalFailed) => ReportComplete

\* C9: when the child cannot be launched there is no child, no line is read
\* or classified, nothing of the report is printed, no probe is run, and
\* the failure is printed.
C9_SpawnFailureIsHard ==
    (pc \in {"except", "done"} /\ ~Spawned) =>
      /\ out_read = 0 /\ seen = {} /\ ~read_error
      /\ results = << >> /\ advice = << >> /\ probes = << >>
      /\ pc = "done" => diag_failed

C9_Witness == pc = "done" /\ ~Spawned /\ diag_failed

\* C10: every line the child wrote to stderr has been classified by the time
\* the results are printed, and the child is never blocked writing stderr.
C10_BothStreamsObserved ==
    /\ results # << >> => \A i \in 1..Len(err_written) : (err_written[i] \o "\n") \in seen
    /\ ~err_blocked

\* C11: when run() returns on a path where terminate() and kill() went
\* through, the handle of the spawned child has been released: the child has
\* exited and its exit status has been collected (poll() or wait() set
\* returncode).
C11_HandleReleasedOnce ==
    (pc = "done" /\ Spawned /\ ~SignalFailed) =>
      /\ child = "exited"
      /\ returncode = "set"

\* what the most recent probe printed
LastProbe == probes[Len(probes)][2]

\* C12: a probe never throws and always resolves to one of three outcomes:
\* ping exiting 0 is Reachable, ping exiting non-zero is Unreachable, and ping
\* failing to launch is inconclusive ("Test failed"), never Unreachable.
C12_ProbeThreeOutcomes ==
    /\ \A i \in 1..Len(probes) :
          probes[i][2] \in {"Reachable", "Unreachable", "Test failed"}
    /\ probes # << >> =>
          /\ pc \in {"probe", "done"}
          /\ ~diag_failed
          /\ ping_run = "exit_zero" <=> LastProbe = "Reachable"
          /\ ping_run = "exit_nonzero" <=> LastProbe = "Unreachable"
          /\ ping_run = "launch_error" => LastProbe = "Test failed"

\* C12 witness: ping could not be launched for the second router, after a
\* first router that answered, and the probe printed "Test failed"
C12_Witness ==
    /\ Len(probes) = 2
    /\ probes[1][2] = "Reachable"
    /\ ping_run = "launch_error"
    /\ LastProbe = "Test failed"

\* C13: a probe whose ping got no reply within the time bound resolves to
\* Unreachable, also when the bound that expires is the 5 s limit of
\* subprocess.run (line 154).
C13_TimeoutIsUnreachable ==
    (probes # << >> /\ ping_run = "timeout_expired") => LastProbe = "Unreachable"

\* C14: quick_test.py selects the first candidate of possible_paths that
\* exists, whatever later candidates exist, and only that one is spawned;
\* when no candidate exists it prints the build-first message and exits with
\* status 1 without spawning a child.
C14_FirstExistingCandidate ==
    /\ executable # "None" =>
          \E i \in DOMAIN possible_paths :
             /\ executable = possible_paths[i]
             /\ executable \in exists
             /\ \A j \in 1..(i - 1) : possible_paths[j] \notin exists
    /\ qpc \in {"ifnot", "run", "tail", "exited"} =>
          (executable = "None" <=> exists = {})
    /\ spawned # "None" => spawned = executable
    /\ (qpc = "exited" /\ exists = {}) =>
          /\ printed = Header \o BuildFirst
          /\ exit_status = 1
          /\ spawned = "None"

\* C14 witness: the second and the fourth candidate exist, the second was
\* selected and spawned
C14_Witness ==
    /\ exists = {possible_paths[2], possible_paths[4]}
    /\ executable = possible_paths[2]
    /\ spawned = possible_paths[2]
    /\ qpc = "exited"

\* C15: what a classification step does is determined by the line alone:
\* whatever the flags and the lines classified before, the step leaves true
\* exactly the flags that were true plus the indicator the line has in the
\* table of lines, and the line is among the issues afterwards exactly if
\* it is an issue line; no other line's issue status changes.
C15_ClassificationPure ==
    [][ (pc = "classify" /\ pc' = "while") =>
          /\ flags' = [s \in Signals |-> flags[s] \/ IndicatorTable[line] = s]
          /\ line \in issues' <=> line \in IssueLines
          /\ issues' \ {line} = issues \ {line} ]_vars

\* C15 witness: the same line, which sets an indicator and is an issue, went
\* through the classification twice
C15_Witness ==
    /\ classified = << "ERROR: peers found: 0 reply received\n",
                       "ERROR: peers found: 0 reply received\n" >>
    /\ flags = [AllFalse EXCEPT !["peers_found"] = TRUE]
    /\ issues = {"ERROR: peers found: 0 reply received\n"}

\* C16: the cleanup signals in order.  A signal is delivered only after the
\* loop has ended and only to a child that is still running; the first one
\* is the terminate of line 92; the kill of line 96 comes only after that
\* terminate, at least the 5 s of grace later, with the terminate still not
\* acted on; nothing is sent after the kill.
C16_CleanupOrdered ==
    [][ sent' # sent =>
          /\ loop_end # "none"
          /\ child = "running"
          /\ \/ /\ pc = "terminate"
                /\ sent = << >>
                /\ sent' = << << "TERM", now >> >>
             \/ /\ pc = "kill"
                /\ Len(sent) = 1
                /\ sent[1][1] = "TERM"
                /\ signalled = "TERM"
                /\ now >= sent[1][2] + Grace
                /\ sent' = Append(sent, << "KILL", now >>) ]_vars

\* C16 witness: the session ended after a terminate and, 5 s later, a kill
C16_Witness ==
    /\ pc = "done"
    /\ Len(sent) = 2
    /\ sent[2][1] = "KILL"
    /\ sent[2][2] = sent[1][2] + Grace
    /\ results # << >>

\* C17: the monitoring loop is left only when the deadline has passed, or
\* when readline() returned no line and the child had exited, or on a read
\* error; after a read that returned no line with the child still running
\* (a child that closed its output included) the loop sleeps and tests the
\* deadline again.
C17_LoopEndsOnlyOnTerminalCondition ==
    [][ /\ (InLoop /\ ~InLoop') =>
             \/ now - start_time >= Deadline /\ loop_end' = "deadline"
             \/ pc = "eof" /\ child = "exited" /\ loop_end' = "exited"
             \/ ~read_error /\ read_error' /\ loop_end' = "error"
        /\ (pc = "eof" /\ child = "running" /\ pc' # pc) => pc' = "sleep"
        /\ (pc = "sleep" /\ pc' # pc) => pc' = "while" ]_vars

\* C17 witness: a child that closed its output and kept running was polled
\* until the deadline ended the loop
C17_Witness ==
    /\ pc = "cleanup"
    /\ loop_end = "deadline"
    /\ child = "running"
    /\ ~out_open
    /\ ~read_error

\* C18: the probes run one after the other in the order of the routers
\* list, each router gets one result whatever the earlier probes gave, and
\* the probes start only in a session whose child was spawned, after the
\* loop has ended, the cleanup of lines 91-96 has run, the results have been
\* printed and all four advice tests have been made.
C18_ProbesInOrderAfterCleanup ==
    /\ Len(probes) <= Len(routers)
    /\ \A i \in 1..Len(probes) : probes[i][1] = routers[i]
    /\ pc = "probe" => Len(probes) = idx - 1
    /\ (pc = "done" /\ probes # << >>) => Len(probes) = Len(routers)
    /\ (pc = "probe" \/ probes # << >>) =>
          /\ pc \in {"probe", "done"}
          /\ Spawned
          /\ loop_end # "none"
          /\ child = "exited" \/ Len(sent) = 2
          /\ results # << >>
          /\ LET absent(s) == ~results[s]
             IN  advice = SelectSeq(AdviceOrder, absent)

\* C18 witness: a spawned session ended with three results in list order,
\* the first inconclusive and the second unreachable
C18_Witness ==
    /\ pc = "done"
    /\ Spawned
    /\ probes = << << "router.utorrent.com", "Test failed" >>,
                   << "router.bittorrent.com", "Unreachable" >>,
                   << "dht.transmissionbt.com", "Reachable" >> >>

\* every line the child wrote to stdout has been read and classified
AllOutputClassified ==
    /\ out_read = Len(out_written)
    /\ \A i \in 1..Len(out_written) : (out_written[i] \o "\n") \in seen

\* C19: once the loop has stopped without a read error, for a child that
\* exited before the deadline, every line the child wrote to stdout has
\* been read and classified.
C19_NoOutputLost ==
    ( /\ loop_end # "none"
      /\ ~read_error
      /\ child = "exited"
      /\ exited_at - start_time < Deadline ) => AllOutputClassified

\* lines 48-51 and 67-80 over a whole sequence of lines: the flags of a
\* session that classifies the lines of q in that order
RECURSIVE FlagsAfter(_)
FlagsAfter(q) ==
    IF q = << >>
    THEN AllFalse
    ELSE SetIndicator(FlagsAfter(SubSeq(q, 1, Len(q) - 1)), q[Len(q)])

\* the sequences a session could have classified with the same set of lines
\* as this one: every order of them, and every order with one line repeated
SameLinesSessions ==
    LET n == Cardinality(seen)
    IN  {q \in [1..n -> seen] \cup [1..(n + 1) -> seen] :
            {q[i] : i \in DOMAIN q} = seen}

\* C20: the signal values a session reports (the step of lines 99-104)
\* depend only on the set of lines it classified: a session classifying the
\* same lines in any other order, or with a line repeated, ends with the
\* same four values.
C20_OrderAndMultiplicityIrrelevant ==
    [][ (pc = "results" /\ pc' = "advice") =>
          \A q \in SameLinesSessions : FlagsAfter(q) = results' ]_vars

\* C20 witness: a finished session that classified two lines with different
\* indicators, the one for the peers first
C20_Witness ==
    /\ pc = "done"
    /\ classified = << "ERROR: peers found: 0 reply received\n",
                       "DHT Bootstrap completed successfully\n" >>
    /\ results = [AllFalse EXCEPT !["peers_found"] = TRUE, !["dht_bootstrap"] = TRUE]
====
